---- MODULE Spec2Model ----
(***************************************************************************)
(* Model of BaseAPI (src/BaseAPI.py): the memoizing cache wrapper          *)
(* BaseAPI._memoize, the status classification BaseAPI._check_status, the  *)
(* transport (_key, _get, _put_post_delete), the query formatting _param   *)
(* and set_auth, with the clients' configuration.                          *)
(*                                                                         *)
(* Time is counted in ticks of 1/Res second, because time.time() is a      *)
(* float and memoized() truncates it with int().  A TTL (_cache_life) is a *)
(* float too and is counted in ticks; Inf stands for float('inf').         *)
(*                                                                         *)
(* A call of memoized() takes up to three steps, between which the other   *)
(* thread, the clock and the client may act: Call (lines 54-60, the        *)
(* decision), Invoke (line 61, f and the store) and Return (line 63, the   *)
(* second read of memo).  Client A is created with the defaults and is     *)
(* reconfigured while it runs; client B is a second client on the same     *)
(* decorated method, created with cache_life=0 and an auth token.          *)
(***************************************************************************)
EXTENDS Integers, Sequences, FiniteSets, TLC

\* ------------------------------------------------------------------ bounds
Res == 2            \* clock ticks per second
MaxTick == 2        \* last tick the clock reaches
MaxCalls == 2       \* memoized calls started in one behaviour

\* ------------------------------------------------------- program constants
DefaultRateLimit == 403
Unauthorized == 401

\* --------------------------------------------------------------- universes
Threads == {"t1", "t2"}
Instances == {"A", "B"}
Inf == -1
TTLs == {0, Inf}
KwNames == {"q"}
KwVals == {1, 2}
PosArgs == {<<"x">>}
AuthDicts == {<< >>, << <<"token", "abc">> >>}

\* the keyword arguments of a call: a mapping from some names to values
KwargsSet == UNION {[S -> KwVals] : S \in SUBSET KwNames}

\* ---------------------------------------------------------------- responses
\* A body text is empty, or not JSON, or the text of a JSON document.  A JSON
\* document is an object (a set of <<field, value>> pairs) or an array.
EmptyText == [form |-> "empty", doc |-> [type |-> "none", fields |-> {}]]
GarbageText == [form |-> "garbage", doc |-> [type |-> "none", fields |-> {}]]
JsonText(d) == [form |-> "json", doc |-> d]
Object(fs) == [type |-> "object", fields |-> fs]
Array == [type |-> "array", fields |-> {}]

Ok == [kind |-> "ok", value |-> << >>]
Raise(k, v) == [kind |-> k, value |-> v]
Value(v) == [kind |-> "value", value |-> <<v>>]

\* json.loads(text)
json_loads(text) ==
    IF text.form = "json" THEN Value(text.doc)
    ELSE Raise("JSONDecodeError", << >>)

\* response['error_msg'] on a decoded document
GetItem(d, name) ==
    IF d.type # "object" THEN Raise("TypeError", << >>)
    ELSE IF \E p \in d.fields : p[1] = name
         THEN Value((CHOOSE p \in d.fields : p[1] = name)[2])
         ELSE Raise("KeyError", <<name>>)

RateLimitError(value) ==
    Raise("RateLimitError", <<value, " Error/Rate Limit Encountered">>)

\* mutant of APIError: the message is dropped
APIError_nomsg(value) == Raise("APIError", <<"error_msg">>)

APIError(value) == Raise("APIError", <<value>>)

\* mutants of IsSuccess: only 200 succeeds; every status from 200 up succeeds
IsSuccess_only200(sc) == sc = 200
IsSuccess_from200(sc) == sc >= 200

\* line 83: sc // 100 == 2
IsSuccess(sc) == sc \div 100 = 2

\* mutant of _check_status: the 401 row is tried before the rate-limit row
_check_status_401first(rl, response) ==
    LET sc == response.status_code IN
    IF IsSuccess(sc)
    THEN IF response.text.form # "empty" THEN Ok
         ELSE Raise("AssertionError", <<"Invalid response from server">>)
    ELSE IF sc = Unauthorized
    THEN LET r == json_loads(response.text) IN
         IF r.kind # "value" THEN r
         ELSE LET m == GetItem(r.value[1], "error_msg") IN
              IF m.kind # "value" THEN m ELSE APIError(m.value[1])
    ELSE IF sc = rl THEN RateLimitError(rl)
    ELSE Raise("ValueError",
               <<"Status code unhandled: ", sc, " for URL ", response.url>>)

\* BaseAPI._check_status(self, response); rl is self._rate_limit_status_code
_check_status(rl, response) ==
    LET sc == response.status_code IN
    IF IsSuccess(sc)
    THEN IF response.text.form # "empty" THEN Ok
         ELSE Raise("AssertionError", <<"Invalid response from server">>)
    ELSE IF sc = rl THEN RateLimitError(rl)
    ELSE IF sc = Unauthorized
    THEN LET r == json_loads(response.text) IN
         IF r.kind # "value" THEN r
         ELSE LET m == GetItem(r.value[1], "error_msg") IN
              IF m.kind # "value" THEN m ELSE APIError(m.value[1])
    ELSE Raise("ValueError",
               <<"Status code unhandled: ", sc, " for URL ", response.url>>)

\* ------------------------------------------------------------------- state
VARIABLES
    clock,        \* time.time(), in ticks of 1/Res second
    memo,         \* the dict memo of _memoize: key -> <<value, timestamp>>
    cache_life,   \* instance -> self._cache_life
    auth_dict,    \* instance -> self._auth_dict, a mapping in insertion order
    rate_limit,   \* instance -> self._rate_limit_status_code
    th,           \* thread -> the frame of its call of memoized()
    started,      \* number of memoized calls started
    written,      \* history: key -> the call whose store is the latest
    last,         \* the call that has just finished: its frame and outcome
    classified,   \* the response just handed to _check_status, its outcome
    xfer          \* the request in progress or just finished outside memoized()

vars == <<clock, memo, cache_life, auth_dict, rate_limit, th, started,
          written, last, classified, xfer>>

api == [i \in Instances |-> IF i = "A" THEN "http://a/" ELSE "http://b/"]

\* int(time.time())
IntTime(tick) == tick \div Res

\* mutant of Expired: the infinite TTL is compared as the number that
\* stands for it
Expired_sentinel(now, stamp, ttl) == (now - stamp) * Res > ttl

\* mutant of Expired: an entry expires as soon as its age reaches the TTL
Expired_atTTL(now, stamp, ttl) == ttl # Inf /\ (now - stamp) * Res >= ttl

\* now - memo[key][1] > instance._cache_life, the TTL being in ticks
Expired(now, stamp, ttl) == ttl # Inf /\ (now - stamp) * Res > ttl

\* mutants of Key: the keyword arguments enter with their values, as a
\* dict or as frozenset(kwargs.items()); the
\* receiver args[0] is part of the key
Key_kwvalues(args, kwargs) == <<"f", kwargs>> \o Tail(args)
Key_kwitems(args, kwargs) ==
    <<"f", {<<n, kwargs[n]>> : n \in DOMAIN kwargs}>> \o Tail(args)
Key_receiver(args, kwargs) == <<"f", DOMAIN kwargs>> \o args

\* key = tuple([f, frozenset(kwargs)] + list(args[1:])); args[0] is the
\* receiver, and iterating the dict kwargs yields its names
Key(args, kwargs) == <<"f", DOMAIN kwargs>> \o Tail(args)

\* str(v) of an integer v, in decimal
Digit(n) == CASE n = 0 -> "0" [] n = 1 -> "1" [] n = 2 -> "2" [] n = 3 -> "3"
              [] n = 4 -> "4" [] n = 5 -> "5" [] n = 6 -> "6" [] n = 7 -> "7"
              [] n = 8 -> "8" [] OTHER -> "9"

RECURSIVE Str(_)
Str(v) ==
    IF v < 0 THEN "-" \o Str(-v)
    ELSE IF v < 10 THEN Digit(v)
    ELSE Str(v \div 10) \o Digit(v % 10)

\* BaseAPI._key: the auth dict as a query string
RECURSIVE _key(_)
_key(d) ==
    IF d = << >> THEN << >>
    ELSE <<Head(d)[1], "=", Head(d)[2], "&">> \o _key(Tail(d))

\* the python values a caller passes as parameter values
PyInt(n) == [py |-> "int", i |-> n]
PyStr(x) == [py |-> "str", s |-> x]
PyBool(x) == [py |-> "bool", b |-> x]
PyList(x) == [py |-> "list", l |-> x]
PyNone == [py |-> "NoneType"]

\* the truth value of a python value: `if value:`
Truthy(value) ==
    CASE value.py = "int" -> value.i # 0
      [] value.py = "str" -> value.s # ""
      [] value.py = "bool" -> value.b
      [] value.py = "list" -> value.l # << >>
      [] OTHER -> FALSE

\* str(value); the lists of the model are [] and [1]
str(value) ==
    CASE value.py = "int" -> Str(value.i)
      [] value.py = "str" -> value.s
      [] value.py = "bool" -> IF value.b THEN "True" ELSE "False"
      [] value.py = "list" -> IF value.l = << >> THEN "[]" ELSE "[1]"
      [] OTHER -> "None"

\* mutant of _param: only None is dropped (`if value is not None:`)
_param_notNone(param, value) ==
    IF value # PyNone THEN <<param, "=", str(value), "&">> ELSE << >>

\* BaseAPI._param(param, value)
_param(param, value) ==
    IF Truthy(value) THEN <<param, "=", str(value), "&">> ELSE << >>

\* the query string the wrapped method f builds from its arguments
QString(args, kwargs) ==
    args \o (IF "q" \in DOMAIN kwargs THEN _param("q", PyInt(kwargs["q"])) ELSE << >>)

\* what the server may answer to the request of the n-th call
Replies(n) ==
    { [status_code |-> 200, text |-> JsonText(Object({<<"id", n>>}))],
      [status_code |-> 401,
       text |-> JsonText(Object({<<"error_msg", "invalid token">>}))],
      [status_code |-> 403, text |-> GarbageText] }

\* the URL BaseAPI._get requests: self._api + qstring + self._key
Url(i, qstring) == <<api[i]>> \o qstring \o _key(auth_dict[i])

\* BaseAPI._get(self, qstring) once the server has answered with reply
_get(i, qstring, reply) ==
    LET response == [status_code |-> reply.status_code, text |-> reply.text,
                     url |-> Url(i, qstring)]
        st == _check_status(rate_limit[i], response)
    IN  IF st.kind # "ok" THEN st ELSE json_loads(response.text)

\* the frame of a thread that is not inside memoized(); now is
\* IntTime(tick), and the fields from id on are history, not locals: the
\* number of the call, the tick it read, whether no other call on its key
\* overlapped it, the entries it could see, the TTL it read, the number of
\* times it invoked f and the value f returned to it
Idle == [pc |-> "idle", inst |-> "A", args |-> <<"A", "x">>, kwargs |-> << >>,
         key |-> << >>, id |-> 0, tick |-> 0, solo |-> TRUE, seen |-> {},
         ttl |-> Inf, ninv |-> 0, own |-> << >>]

None == [kind |-> "none", value |-> << >>]
NoLast == [t |-> "t1", frame |-> Idle, outcome |-> None]
NotClassified == [rl |-> 0, status_code |-> 0, text |-> EmptyText, url |-> << >>,
                  outcome |-> None]

\* no request outside memoized() has been made.  items is the dict whose
\* items() _key iterates, pos the number of pairs it has consumed; during
\* and mid are history: the auth dicts the instance has had since the
\* request began, and whether one was assigned between two pairs.  payload
\* is the caller's dict, data the dict handed to requests; given and auth0
\* are history: the caller's dict and the auth dict as the call found them
NoXfer == [op |-> "none", pc |-> "idle", inst |-> "A", endpoint |-> "",
           param |-> "", value |-> PyNone, qstring |-> << >>,
           items |-> << >>, pos |-> 0, auth_string |-> << >>,
           during |-> {}, mid |-> FALSE, url |-> << >>, outcome |-> None,
           payload |-> << >>, data |-> << >>, given |-> << >>,
           auth0 |-> << >>]

InitCommon ==
    /\ clock = 0
    /\ memo = << >>
    /\ cache_life = [i \in Instances |-> IF i = "A" THEN Inf ELSE 0]
    /\ auth_dict = [i \in Instances |->
                      IF i = "A" THEN << >> ELSE << <<"token", "abc">> >>]
    /\ th = [t \in Threads |-> Idle]
    /\ started = 0
    /\ written = << >>
    /\ last = NoLast
    /\ classified = NotClassified
    /\ xfer = NoXfer

Init ==
    /\ InitCommon
    /\ rate_limit = [i \in Instances |-> DefaultRateLimit]

Active(t) == th[t].pc # "idle"

\* threads are interchangeable: when a call ends, the calls still in
\* progress are kept in the first slots
Compact(frames) ==
    IF frames["t1"].pc = "idle"
    THEN [t \in Threads |-> IF t = "t1" THEN frames["t2"] ELSE frames["t1"]]
    ELSE frames
Earlier(u, t) == u = "t1" /\ t = "t2"

\* mutant of Miss: the TTL in force when the entry was stored decides
Miss_storedTTL(k, now, ttl) ==
    k \notin DOMAIN memo \/ Expired(now, memo[k][2], written[k].ttl)

\* line 60: key not in memo or now - memo[key][1] > instance._cache_life
Miss(k, now, ttl) == k \notin DOMAIN memo \/ Expired(now, memo[k][2], ttl)

\* history: the entries of memo stored by calls with the positional
\* arguments args[1:] and the keyword names of kwargs, with their writers
SeenBy(args, kwargs) ==
    {[entry |-> memo[k], w |-> written[k]] :
        k \in {x \in DOMAIN memo : /\ Tail(written[x].args) = Tail(args)
                                   /\ DOMAIN written[x].kwargs = DOMAIN kwargs}}

\* memoized(*args, **kwargs), lines 54-60: read the clock, build the key,
\* decide between hit and miss.  Idle threads are interchangeable, so the
\* call is made by the first idle thread
Call(t, args, kwargs) ==
    /\ ~Active(t)
    /\ \A u \in Threads : Earlier(u, t) => Active(u)
    /\ started < MaxCalls
    /\ started' = started + 1
    /\ LET i == args[1]
           k == Key(args, kwargs)
           shared == \E u \in Threads \ {t} : Active(u) /\ th[u].key = k
           miss == Miss(k, IntTime(clock), cache_life[i])
       IN th' = [u \in Threads |->
                   IF u = t
                   THEN [Idle EXCEPT !.pc = IF miss THEN "invoke" ELSE "ret",
                                     !.inst = i, !.args = args,
                                     !.kwargs = kwargs, !.key = k,
                                     !.tick = clock, !.solo = ~shared,
                                     !.seen = SeenBy(args, kwargs),
                                     !.id = started + 1,
                                     !.ttl = cache_life[i]]
                   ELSE IF Active(u) /\ th[u].key = k
                        THEN [th[u] EXCEPT !.solo = FALSE]
                        ELSE th[u]]
    /\ last' = NoLast
    /\ UNCHANGED <<clock, memo, cache_life, auth_dict, rate_limit,
                   written, classified, xfer>>

\* mutant of SetItem: the dict is replaced by one holding the new item only
SetItem_alone(d, k, entry) == [x \in {k} |-> entry]

\* mutant of SetItem: an existing item is kept (dict.setdefault)
SetItem_setdefault(d, k, entry) ==
    [x \in DOMAIN d \cup {k} |-> IF x \in DOMAIN d THEN d[x] ELSE entry]

\* the dict d after d[k] = entry
SetItem(d, k, entry) == [x \in DOMAIN d \cup {k} |-> IF x = k THEN entry ELSE d[x]]

\* the answer of a server that could not be reached: requests.get raises
NoResponse == [status_code |-> 0, text |-> EmptyText]

\* what else may happen to the request of a call: no connection, a body
\* that is not JSON under a success status, a status no rule handles
Failures ==
    { NoResponse,
      [status_code |-> 200, text |-> GarbageText],
      [status_code |-> 500, text |-> EmptyText] }

\* f(*args, **kwargs): the request of _get and what comes of its reply
Request(i, qs, reply) ==
    IF reply = NoResponse THEN Raise("ConnectionError", << >>)
    ELSE _get(i, qs, reply)

\* mutant of Stored: the entry is stored without the time of the call
Stored_epoch(d, k, r, now) ==
    IF r.kind = "value" THEN SetItem(d, k, <<r.value[1], 0>>) ELSE d

\* mutant of Stored: a failed invocation is cached as None
Stored_onraise(d, k, r, now) ==
    SetItem(d, k, <<IF r.kind = "value" THEN r.value[1] ELSE 0, now>>)

\* memo after line 61 when f ended with r: the tuple is built and assigned
\* only when f returned
Stored(d, k, r, now) ==
    IF r.kind = "value" THEN SetItem(d, k, <<r.value[1], now>>) ELSE d

\* line 61: memo[key] = (f(*args, **kwargs), now); f issues the request and
\* returns the decoded body, or raises and ends the call
InvokeWith(t, replies) ==
    /\ th[t].pc = "invoke"
    /\ \E reply \in replies :
        LET i == th[t].inst
            k == th[t].key
            qs == QString(Tail(th[t].args), th[t].kwargs)
            r == Request(i, qs, reply)
            frame == [th[t] EXCEPT !.ninv = @ + 1]
        IN /\ memo' = Stored(memo, k, r, IntTime(th[t].tick))
           /\ IF r.kind = "value"
              THEN /\ written' = [x \in DOMAIN written \cup {k} |->
                                    IF x = k
                                    THEN [tick |-> th[t].tick,
                                          ttl |-> th[t].ttl, args |-> th[t].args,
                                          kwargs |-> th[t].kwargs,
                                          val |-> r.value[1],
                                          auth |-> auth_dict[i]]
                                    ELSE written[x]]
                   /\ th' = [th EXCEPT ![t] = [frame EXCEPT !.pc = "ret",
                                                           !.own = r.value]]
                   /\ last' = NoLast
              ELSE /\ th' = Compact([th EXCEPT ![t] = Idle])
                   /\ last' = [t |-> t, frame |-> frame, outcome |-> r]
                   /\ UNCHANGED written
    /\ UNCHANGED <<clock, cache_life, auth_dict, rate_limit, started,
                   classified, xfer>>

Invoke(t) == InvokeWith(t, Replies(th[t].id))

\* the invocation of f fails in one of the other ways
InvokeFails(t) == InvokeWith(t, Failures)

\* mutant of Returned: the value this call computed or saw is returned
Returned_local(fr) ==
    IF fr.own # << >> THEN fr.own[1] ELSE memo[fr.key][1]

\* what line 63 returns in frame fr: memo[key][0]
Returned(fr) == memo[fr.key][1]

\* line 63: return memo[key][0]
Return(t) ==
    /\ th[t].pc = "ret"
    /\ last' = [t |-> t, frame |-> th[t], outcome |-> Value(Returned(th[t]))]
    /\ th' = Compact([th EXCEPT ![t] = Idle])
    /\ UNCHANGED <<clock, memo, cache_life, auth_dict, rate_limit, started,
                    written, classified, xfer>>

\* the clock advances
Tick ==
    /\ clock < MaxTick
    /\ clock' = clock + 1
    /\ last' = NoLast
    /\ UNCHANGED <<memo, cache_life, auth_dict, rate_limit, th, started,
                    written, classified, xfer>>

\* the client assigns instance._cache_life
SetCacheLife(i, ttl) ==
    /\ cache_life[i] # ttl
    /\ cache_life' = [cache_life EXCEPT ![i] = ttl]
    /\ last' = NoLast
    /\ UNCHANGED <<clock, memo, auth_dict, rate_limit, th, started,
                   written, classified, xfer>>

\* history: the request in progress sees the instance take the dict auth
Observed(x, i, auth) ==
    IF x.pc \in {"key", "done"} /\ x.inst = i
    THEN [x EXCEPT !.during = @ \cup {auth},
                   !.mid = @ \/ (0 < x.pos /\ x.pos < Len(x.items))]
    ELSE x

\* mutant of set_auth: new credentials empty the cache
set_auth_invalidate(i, auth) ==
    /\ auth_dict[i] # auth
    /\ auth_dict' = [auth_dict EXCEPT ![i] = auth]
    /\ memo' = << >>
    /\ last' = NoLast
    /\ xfer' = xfer
    /\ UNCHANGED <<clock, cache_life, rate_limit, th, started,
                   written, classified>>

\* BaseAPI.set_auth(self, auth): the attribute is bound to the dict auth
set_auth(i, auth) ==
    /\ auth_dict[i] # auth
    /\ auth_dict' = [auth_dict EXCEPT ![i] = auth]
    /\ last' = NoLast
    /\ xfer' = Observed(xfer, i, auth)
    /\ UNCHANGED <<clock, memo, cache_life, rate_limit, th, started,
                   written, classified>>

\* the calls the clients make: client A with each set of keyword
\* arguments, client B with q=1
Calls ==
    {c \in [args : {<<i>> \o a : i \in Instances, a \in PosArgs},
            kwargs : KwargsSet] :
        c.args[1] = "B" => c.kwargs \in [KwNames -> {1}]}

\* a call is made, goes on or ends, or the clock advances
Run ==
    \/ \E t \in Threads, c \in Calls : Call(t, c.args, c.kwargs)
    \/ \E t \in Threads : Invoke(t)
    \/ \E t \in Threads : Return(t)
    \/ Tick

Next ==
    \/ Run
    \/ \E ttl \in TTLs : SetCacheLife("A", ttl)

Spec == Init /\ [][Next]_vars

\* the calls with the credentials of client A replaced at any time and
\* the TTLs as configured at construction
NextAuth ==
    \/ Run
    \/ \E a \in AuthDicts : set_auth("A", a)

SpecAuth == Init /\ [][NextAuth]_vars

\* the calls with every kind of failure of the underlying call and the
\* TTLs as configured at construction
NextFail ==
    \/ Run
    \/ \E t \in Threads : InvokeFails(t)

SpecFail == Init /\ [][NextFail]_vars

\* ------------------------------------ requests outside memoized()
Endpoints == {"search?", "me?"}
ParamNames == {"q", "limit"}
ParamValues == {PyNone, PyInt(0), PyInt(1), PyInt(10), PyStr(""),
                PyStr("abc"), PyBool(FALSE), PyBool(TRUE), PyList(<< >>),
                PyList(<<1>>)}

\* the dicts a client passes to set_auth: two of them hold the same names
\* with other values, one holds them in the other order
Credentials ==
    { << >>,
      << <<"token", "abc">>, <<"secret", "s1">> >>,
      << <<"token", "xyz">>, <<"secret", "s2">> >>,
      << <<"secret", "s2">>, <<"token", "xyz">> >> }

\* what the server may answer to a request
HttpReplies ==
    { [status_code |-> 200, text |-> JsonText(Object({<<"id", 1>>}))],
      [status_code |-> 401,
       text |-> JsonText(Object({<<"error_msg", "invalid token">>}))],
      NoResponse }

\* mutant of Item: the loop looks the pair up in self._auth_dict again
Item_reread(items, current, n) ==
    IF n <= Len(current) THEN current[n] ELSE items[n]

\* line 71: the n-th pair the loop gets from the items() view it iterates;
\* the view belongs to the dict that self._auth_dict was when the loop
\* began, whatever dict current the attribute is bound to now
Item(items, current, n) == items[n]

\* an API method calls self._get(endpoint + self._param(param, value));
\* line 103 enters _key, lines 70-71: auth_string = '' and the iteration
\* over self._auth_dict.items() begins
GetStart(i, endpoint, param, value) ==
    /\ xfer.pc \in {"idle", "done"}
    /\ xfer' = [NoXfer EXCEPT !.op = "get", !.pc = "key", !.inst = i,
                              !.endpoint = endpoint, !.param = param,
                              !.value = value,
                              !.qstring = <<endpoint>> \o _param(param, value),
                              !.items = auth_dict[i],
                              !.during = {auth_dict[i]}]
    /\ UNCHANGED <<clock, memo, cache_life, auth_dict, rate_limit, th, started,
                   written, last, classified>>

\* line 72: auth_string += str(k) + '=' + str(v) + '&' for the next pair
KeyStep ==
    /\ xfer.pc = "key"
    /\ xfer.pos < Len(xfer.items)
    /\ LET kv == Item(xfer.items, auth_dict[xfer.inst], xfer.pos + 1)
       IN xfer' = [xfer EXCEPT !.pos = @ + 1,
                               !.auth_string = @ \o <<kv[1], "=", kv[2], "&">>]
    /\ UNCHANGED <<clock, memo, cache_life, auth_dict, rate_limit, th, started,
                   written, last, classified>>

\* lines 73, 103-106: _key returns, qstring += it, the request goes to
\* self._api + qstring, and the reply is classified and decoded
GetSend ==
    /\ xfer.pc = "key"
    /\ xfer.pos = Len(xfer.items)
    /\ \E reply \in HttpReplies :
        LET url == <<api[xfer.inst]>> \o xfer.qstring \o xfer.auth_string
            response == [status_code |-> reply.status_code,
                         text |-> reply.text, url |-> url]
            st == _check_status(rate_limit[xfer.inst], response)
        IN xfer' = [xfer EXCEPT
                      !.pc = "done", !.url = url,
                      !.outcome = IF reply = NoResponse
                                  THEN Raise("ConnectionError", << >>)
                                  ELSE IF st.kind # "ok" THEN st
                                  ELSE json_loads(response.text)]
    /\ UNCHANGED <<clock, memo, cache_life, auth_dict, rate_limit, th, started,
                   written, last, classified>>

\* the payloads a method hands over: without and with a name that the
\* auth dicts hold too
Payloads ==
    { << >>,
      << <<"name", "x">> >>,
      << <<"token", "mine">>, <<"name", "x">> >>,
      << <<"name", "x">>, <<"secret", "s0">> >> }

\* requests.put, requests.post, requests.delete
Methods == {"put", "post", "delete"}

\* the dict d after d[kv[0]] = kv[1]: the value of an existing key is
\* replaced where it stands, a new key goes to the end
SetPair(d, kv) ==
    IF \E j \in DOMAIN d : d[j][1] = kv[1]
    THEN [j \in DOMAIN d |-> IF d[j][1] = kv[1] THEN kv ELSE d[j]]
    ELSE Append(d, kv)

\* mutant of Update: a key the dict holds already keeps its value
RECURSIVE Update_keep(_, _)
Update_keep(d, other) ==
    IF other = << >> THEN d
    ELSE Update_keep(IF \E j \in DOMAIN d : d[j][1] = Head(other)[1]
                     THEN d ELSE Append(d, Head(other)), Tail(other))

\* the dict d after d.update(other)
RECURSIVE Update(_, _)
Update(d, other) ==
    IF other = << >> THEN d
    ELSE Update(SetPair(d, Head(other)), Tail(other))

\* BaseAPI._put_post_delete(endpoint, payload, http_method), called by
\* _put, _post and _delete: the caller's dict is updated, then sent
PutPostDelete(i, method, endpoint, payload) ==
    /\ xfer.pc \in {"idle", "done"}
    /\ \E reply \in HttpReplies :
        LET merged == Update(payload, auth_dict[i])
            url == <<api[i], endpoint>>
            response == [status_code |-> reply.status_code,
                         text |-> reply.text, url |-> url]
            st == _check_status(rate_limit[i], response)
        IN xfer' = [NoXfer EXCEPT
                      !.op = method, !.pc = "done", !.inst = i,
                      !.endpoint = endpoint, !.url = url,
                      !.given = payload, !.auth0 = auth_dict[i],
                      !.during = {auth_dict[i]},
                      !.payload = merged, !.data = merged,
                      !.outcome = IF reply = NoResponse
                                  THEN Raise("ConnectionError", << >>)
                                  ELSE IF st.kind # "ok" THEN st
                                  ELSE json_loads(response.text)]
    /\ UNCHANGED <<clock, memo, cache_life, auth_dict, rate_limit, th, started,
                   written, last, classified>>

NextHttp ==
    \/ \E i \in Instances, e \in Endpoints, p \in ParamNames,
          v \in ParamValues : GetStart(i, e, p, v)
    \/ KeyStep
    \/ GetSend
    \/ \E a \in Credentials : set_auth("A", a)
    \/ \E i \in Instances, m \in Methods, e \in Endpoints, p \in Payloads :
          PutPostDelete(i, m, e, p)

SpecHttp == Init /\ [][NextHttp]_vars

\* ------------------------------------------- classification on its own
RateCodes == {200, 401, DefaultRateLimit, 429}
Statuses == {199, 200, 201, 204, 299, 300, 400, 401, DefaultRateLimit, 429, 500}
Messages == {"invalid token", "expired"}
Texts == {EmptyText, GarbageText, JsonText(Array), JsonText(Object({}))}
           \cup {JsonText(Object({<<"error_msg", m>>})) : m \in Messages}
           \cup {JsonText(Object({<<"error", m>>})) : m \in Messages}
Urls == {<<"http://x/y">>, <<"http://a/", "x">>}
Responses == [status_code : Statuses, text : Texts, url : Urls]

InitCS ==
    /\ InitCommon
    /\ rate_limit \in [Instances -> RateCodes]

\* self._check_status(response) on instance i, lines 81-93
Classify(i, response) ==
    /\ classified' = [rl |-> rate_limit[i],
                      status_code |-> response.status_code,
                      text |-> response.text, url |-> response.url,
                      outcome |-> _check_status(rate_limit[i], response)]
    /\ UNCHANGED <<clock, memo, cache_life, auth_dict, rate_limit, th, started,
                    written, last, xfer>>

NextCS == \E i \in Instances, response \in Responses : Classify(i, response)

SpecCS == InitCS /\ [][NextCS]_vars

Classified == classified.outcome.kind # "none"
Unhandled(sc, url) ==
    Raise("ValueError", <<"Status code unhandled: ", sc, " for URL ", url>>)
AuthBody(m) == JsonText(Object({<<"error_msg", m>>}))

\* C3 as stated: a response whose status equals the configured rate-limit
\* code is classified RateLimitError carrying that code, whatever the body
C3_AsStated ==
    (Classified /\ classified.status_code = classified.rl)
        => classified.outcome = RateLimitError(classified.rl)

\* C3 amended: when the configured rate-limit code r is not a 2xx code, a
\* response with status r is classified RateLimitError carrying r, whatever
\* the body (also when r is 401 and the body holds an error_msg)
C3_RateLimit ==
    (Classified /\ classified.status_code = classified.rl
                /\ classified.rl \div 100 # 2)
        => classified.outcome = RateLimitError(classified.rl)

C3_Witness ==
    /\ classified.status_code = Unauthorized
    /\ classified.rl = Unauthorized
    /\ classified.text = AuthBody("invalid token")
    /\ classified.outcome.kind = "RateLimitError"

\* C8 as stated: status 401 with a JSON object body holding error_msg = m is
\* classified APIError carrying m, for every configured rate-limit code
C8_AsStated ==
    \A m \in Messages :
        (Classified /\ classified.status_code = Unauthorized
                    /\ classified.text = AuthBody(m))
            => classified.outcome = Raise("APIError", <<m>>)

\* C8 amended: status 401 with a JSON object body holding error_msg = m is
\* classified APIError carrying m, for every configured rate-limit code
\* other than 401
C8_Auth ==
    \A m \in Messages :
        (Classified /\ classified.status_code = Unauthorized
                    /\ classified.rl # Unauthorized
                    /\ classified.text = AuthBody(m))
            => classified.outcome = Raise("APIError", <<m>>)

C8_Witness ==
    /\ classified.status_code = Unauthorized
    /\ classified.rl = DefaultRateLimit
    /\ classified.text = AuthBody("invalid token")
    /\ classified.outcome = Raise("APIError", <<"invalid token">>)

\* C9: a response is classified ValueError carrying its status code and its
\* URL exactly when its status is not 2xx, not the rate-limit code and not 401
C9_Unhandled ==
    Classified =>
        LET sc == classified.status_code IN
        (classified.outcome = Unhandled(sc, classified.url))
            <=> (sc \div 100 # 2 /\ sc # classified.rl /\ sc # Unauthorized)

C9_Witness ==
    /\ classified.status_code = 500
    /\ classified.url = <<"http://x/y">>
    /\ classified.outcome = Unhandled(500, <<"http://x/y">>)

\* C10: a 2xx status is classified success when the body is not empty, and
\* AssertionError (no RateLimitError, APIError or ValueError) when it is empty
C10_Success ==
    (Classified /\ classified.status_code \div 100 = 2)
        => IF classified.text # EmptyText
           THEN classified.outcome = Ok
           ELSE classified.outcome.kind = "AssertionError"

C10_Witness ==
    /\ classified.status_code = 204
    /\ classified.text = EmptyText
    /\ classified.rl = 200
    /\ classified.outcome.kind = "AssertionError"



\* ------------------------------------------------------ the memoized call
\* a call has just finished: last.frame is its frame, last.outcome its result
Done == last.outcome.kind # "none"
fr == last.frame

\* the entry e is fresh for a call that read the clock at tick, under ttl
Fresh(e, tick, ttl) == ttl = Inf \/ (IntTime(tick) - e[2]) * Res <= ttl

\* the call found its entry and returned it without invoking f
IsHit(e) ==
    /\ fr.ninv = 0
    /\ last.outcome = Value(e[1])
    /\ fr.key \in DOMAIN memo /\ memo[fr.key] = e

\* the call invoked f once and, when f returned, stored and returned f's
\* value with the whole second the call read as timestamp
IsMiss ==
    /\ fr.ninv = 1
    /\ last.outcome.kind = "value" =>
          /\ last.outcome.value = fr.own
          /\ memo[fr.key] = <<fr.own[1], IntTime(fr.tick)>>

\* C1 as stated: a call made at time T stores an entry; the call repeated at
\* T+D with the same positional args and keyword names, the TTL t unchanged
\* and no other call on the key meanwhile, returns the cached value without
\* invoking f iff D <= t, and otherwise invokes f and stores the time T+D
C1_AsStated ==
    \A s \in fr.seen :
        (Done /\ fr.solo /\ s.w.ttl = fr.ttl)
            => IF fr.ttl = Inf \/ fr.tick - s.w.tick <= fr.ttl
               THEN IsHit(s.entry)
               ELSE fr.ninv = 1

\* C1 amended: with T and T+D taken as the whole seconds int(time.time())
\* the two calls read, the repeated call returns the cached value without
\* invoking f iff D <= t; otherwise it invokes f once and, when f returns a
\* value, stores that value with the timestamp T+D and returns it
C1_Repeat ==
    \A s \in fr.seen :
        (Done /\ fr.solo /\ s.w.ttl = fr.ttl)
            => IF fr.ttl = Inf
                  \/ (IntTime(fr.tick) - IntTime(s.w.tick)) * Res <= fr.ttl
               THEN IsHit(s.entry)
               ELSE IsMiss

C1_Witness ==
    /\ Done /\ fr.solo /\ fr.ttl = 0
    /\ \E s \in fr.seen : s.w.ttl = 0 /\ IntTime(fr.tick) > IntTime(s.w.tick)
    /\ fr.ninv = 1
    /\ last.outcome.kind = "value"
    /\ memo[fr.key][2] = IntTime(fr.tick)

\* C2 as stated: every call that misses and invokes f returns the value its
\* own invocation computed, under any interleaving
C2_AsStated ==
    (Done /\ fr.ninv = 1 /\ last.outcome.kind = "value")
        => last.outcome.value = fr.own

\* C2 amended: a call that misses and invokes f returns the value of the
\* latest store on its key at the moment it returns: the value its own
\* invocation computed when no other call on the key overlaps it, and the
\* value another call stored when that call stored after this one
C2_ReturnsStored ==
    (Done /\ fr.ninv = 1 /\ last.outcome.kind = "value")
        => /\ last.outcome.value[1] = written[fr.key].val
           /\ fr.solo => last.outcome.value = fr.own

C2_Witness ==
    /\ Done /\ fr.ninv = 1 /\ last.outcome.kind = "value"
    /\ written[fr.key].val # fr.own[1]
    /\ last.outcome.value # fr.own

\* C4: a call with the positional arguments and the keyword names of the
\* call that stored an entry, but other keyword values, made while the entry
\* is fresh, returns the stored value without invoking f
C4_KwValues ==
    \A s \in fr.seen :
        (Done /\ fr.solo /\ s.w.kwargs # fr.kwargs
              /\ Fresh(s.entry, fr.tick, fr.ttl))
            => IsHit(s.entry)

C4_Witness ==
    /\ Done /\ fr.solo /\ fr.ninv = 0
    /\ \E s \in fr.seen : /\ s.w.kwargs # fr.kwargs
                          /\ last.outcome = Value(s.entry[1])

\* C5: a call on another instance than the one that stored an entry, with
\* the same arguments, made while the entry is fresh under the caller's TTL,
\* returns the stored value without invoking f
C5_Shared ==
    \A s \in fr.seen :
        (Done /\ fr.solo /\ s.w.args[1] # fr.inst
              /\ Fresh(s.entry, fr.tick, fr.ttl))
            => IsHit(s.entry)

C5_Witness ==
    /\ Done /\ fr.solo /\ fr.ninv = 0
    /\ \E s \in fr.seen : /\ s.w.args[1] # fr.inst
                          /\ last.outcome = Value(s.entry[1])
                          /\ s.w.ttl # fr.ttl
    /\ auth_dict["A"] # auth_dict["B"]

\* when the TTL at a call differs from the TTL in force when the entry was
\* stored, the call is a hit iff the entry's age (the second the call read
\* minus the stored timestamp) is at most the TTL at the call
C6_Decision ==
    \A s \in fr.seen :
        (Done /\ fr.solo /\ s.w.ttl # fr.ttl)
            => IF Fresh(s.entry, fr.tick, fr.ttl)
               THEN IsHit(s.entry) ELSE IsMiss

\* the cache holds, for every key, exactly what the latest store on that key
\* wrote: no other step has removed or rewritten an entry
CacheIsStores ==
    /\ DOMAIN memo = DOMAIN written
    /\ \A k \in DOMAIN memo :
          memo[k] = <<written[k].val, IntTime(written[k].tick)>>

\* C6: the hit/miss decision of a call uses the receiver's TTL as it is at
\* that call (C6_Decision), and in every state, so after every change of a
\* TTL, the cache holds exactly what the stores of the calls left in it
C6_TTLAtCall == C6_Decision /\ CacheIsStores

C6_Witness ==
    /\ Done /\ fr.solo /\ fr.ttl = 0 /\ fr.ninv = 1
    /\ \E s \in fr.seen : s.w.ttl = Inf /\ ~Fresh(s.entry, fr.tick, 0)
    /\ cache_life[fr.inst] = Inf

\* C7: a call invokes f at most once, and the entry of a key is the value
\* and the timestamp of the latest store on that key
C7_LastWriter ==
    /\ \A t \in Threads : th[t].ninv <= 1
    /\ fr.ninv <= 1
    /\ CacheIsStores

\* two calls on one key both missed while no entry existed, and both
\* invoked f
C7_Witness ==
    /\ th["t1"].pc = "ret" /\ th["t2"].pc = "ret"
    /\ th["t1"].key = th["t2"].key
    /\ th["t1"].ninv = 1 /\ th["t2"].ninv = 1
    /\ th["t1"].seen = {} /\ th["t2"].seen = {}
    /\ th["t1"].own # th["t2"].own

\* ---------------------------------------------- failures and the cache
\* the call that has just finished ended with an exception
Failed == Done /\ last.outcome.kind # "value"

\* the failing call invoked f once, the exception of f is its outcome, and
\* the entry of its key is as the call found it: absent, or the expired
\* entry with its value and timestamp
LeftAsFound ==
    /\ fr.ninv = 1
    /\ last.outcome.kind \in {"ConnectionError", "RateLimitError", "APIError",
                              "ValueError", "AssertionError",
                              "JSONDecodeError", "KeyError", "TypeError"}
    /\ fr.seen = {} => fr.key \notin DOMAIN memo
    /\ \A s \in fr.seen : fr.key \in DOMAIN memo /\ memo[fr.key] = s.entry

\* ttl1 is at most ttl2
AtMost(ttl1, ttl2) == ttl2 = Inf \/ (ttl1 # Inf /\ ttl1 <= ttl2)

\* C11 as stated: when the underlying call fails, the failure reaches the
\* caller and the cache is as before the call, so that the next call on the
\* key, whichever instance makes it, invokes f again
C11_AsStated ==
    (Failed /\ fr.solo)
        => /\ LeftAsFound
           /\ \A i \in Instances : Miss(fr.key, IntTime(clock), cache_life[i])

\* C11 amended: when the underlying call fails, the failure reaches the
\* caller uncaught and the call stores nothing: an absent key stays absent,
\* an expired entry keeps its value and timestamp, and the next call on the
\* key made under a TTL no larger than the failing call's invokes f again
C11_Untouched ==
    /\ CacheIsStores
    /\ (Failed /\ fr.solo)
          => /\ LeftAsFound
             /\ \A ttl \in TTLs :
                   AtMost(ttl, fr.ttl) => Miss(fr.key, IntTime(clock), ttl)

\* a call found an expired entry, could not reach the server, and the entry
\* is still there
C11_Witness ==
    /\ Failed /\ fr.solo
    /\ last.outcome.kind = "ConnectionError"
    /\ \E s \in fr.seen : memo[fr.key] = s.entry

\* ------------------------------------------------------- cache forever
\* the frames of the calls in progress and of the call that just finished
Frames == {th[t] : t \in Threads} \cup {fr}

\* C12 as stated: with TTL infinity on every calling instance, once an entry
\* has been stored for a key no invocation of f for that key is outstanding
\* or still to come
C12_AsStated ==
    \A t \in Threads :
        (th[t].pc = "invoke" /\ th[t].ttl = Inf /\ th[t].key \in DOMAIN written)
            => written[th[t].key].ttl # Inf

\* C12 amended: a call that starts when its key has an entry, on an
\* instance whose TTL is infinity, never invokes f, however late it is made
\* and whatever calls came before or overlap it
C12_Forever ==
    \A f \in Frames :
        (f.pc # "idle" /\ f.ttl = Inf /\ f.seen # {})
            => f.ninv = 0 /\ f.pc = "ret"

\* the last call allowed was made under TTL infinity in a later second than
\* the one its entry was stored in, and returned it without invoking f
C12_Witness ==
    /\ Done /\ fr.ttl = Inf /\ fr.ninv = 0 /\ fr.id = MaxCalls
    /\ \E s \in fr.seen : /\ IntTime(fr.tick) > s.entry[2]
                          /\ last.outcome = Value(s.entry[1])

\* ------------------------------------------------ auth in the request
\* the pairs of the dict d, in its order, each as key=value&
Flat(d) ==
    [j \in 1..(4 * Len(d)) |->
        LET kv == d[(j + 3) \div 4]
        IN CASE j % 4 = 1 -> kv[1]
             [] j % 4 = 2 -> "="
             [] j % 4 = 3 -> kv[2]
             [] OTHER -> "&"]

\* a GET has just been sent
Sent == xfer.op = "get" /\ xfer.pc = "done"

\* C13: the URL of a GET is the base URL, the caller's query string and
\* then the pairs of one whole auth dict, as key=value& in its order: one
\* of the dicts the instance has had since the request began, hence the
\* dict a of the latest set_auth(a) when none ran during the request
C13_WholeAuth ==
    Sent => \E d \in xfer.during :
                xfer.url = <<api[xfer.inst]>> \o xfer.qstring \o Flat(d)

\* set_auth replaced a dict of two pairs by one with other values between
\* the two pairs of a GET that carries a query parameter
C13_Witness ==
    /\ Sent /\ xfer.mid /\ Len(xfer.items) = 2
    /\ Len(xfer.qstring) > 1
    /\ \E d \in xfer.during : Len(d) = 2 /\ d[1][2] # xfer.items[1][2]
                                         /\ d[2][2] # xfer.items[2][2]

\* --------------------------------------------------- entries are kept
\* the step is the store of a call on key k
StoreOn(k) ==
    \E t \in Threads : /\ th[t].pc = "invoke" /\ th[t].key = k
                       /\ th'[t].pc = "ret"

\* C14: no step removes a key from the cache, and a step that changes the
\* entry of a key is the store of a call on that key
C14_NeverDeleted ==
    [][/\ DOMAIN memo \subseteq DOMAIN memo'
       /\ \A k \in DOMAIN memo : memo'[k] # memo[k] => StoreOn(k)]_vars

\* a call has stored an entry under a second key in a later second, and
\* the entry of the first key is still there with its older timestamp
C14_Witness ==
    \E k1, k2 \in DOMAIN memo :
        /\ memo[k1][2] < memo[k2][2]
        /\ written[k1].tick < written[k2].tick

\* ------------------------------------------- keyword values and the key
\* C15 as stated: calls that differ in the value of a keyword argument have
\* separate entries, so a call is a hit only on an entry that a call with
\* its own keyword values stored
C15_AsStated ==
    (Done /\ fr.solo /\ fr.ninv = 0)
        => written[fr.key].kwargs = fr.kwargs

\* C15 amended: the key holds the set of the keyword names and none of the
\* values, so the calls with given positional arguments and keyword names
\* have one key and one entry whatever the keyword values are
C15_NamesOnly ==
    /\ \A k \in DOMAIN memo : k[2] = DOMAIN written[k].kwargs
    /\ \A k1, k2 \in DOMAIN memo :
          (/\ Tail(written[k1].args) = Tail(written[k2].args)
           /\ DOMAIN written[k1].kwargs = DOMAIN written[k2].kwargs)
              => k1 = k2

\* the cache holds one entry, stored by a call with q=1, and the call with
\* q=2 has just returned its value
C15_Witness ==
    /\ Done /\ fr.ninv = 0 /\ Cardinality(DOMAIN memo) = 1
    /\ "q" \in DOMAIN fr.kwargs /\ fr.kwargs["q"] = 2
    /\ written[fr.key].kwargs["q"] = 1
    /\ last.outcome = Value(written[fr.key].val)

\* ------------------------------------------------------------- _param
\* what _param returned to the method that built the query of the request
Formatted == Tail(xfer.qstring)

\* C16: _param(name, value) is name=value& for the truthy values (1, 10,
\* "abc", True, [1]) and the empty string for the falsy ones: 0, "", False
\* and [] are dropped as None is
C16_Param ==
    xfer.op = "get" =>
        LET v == xfer.value
            pair(text) == <<xfer.param, "=", text, "&">>
        IN /\ v \in {PyNone, PyInt(0), PyStr(""), PyBool(FALSE), PyList(<< >>)}
                 => Formatted = << >>
           /\ v = PyInt(1) => Formatted = pair("1")
           /\ v = PyInt(10) => Formatted = pair("10")
           /\ v = PyStr("abc") => Formatted = pair("abc")
           /\ v = PyBool(TRUE) => Formatted = pair("True")
           /\ v = PyList(<<1>>) => Formatted = pair("[1]")

\* a method passed limit=0 and its request went out without the parameter
C16_Witness ==
    /\ Sent /\ xfer.param = "limit" /\ xfer.value = PyInt(0)
    /\ xfer.url = <<api[xfer.inst], xfer.endpoint>> \o xfer.auth_string

\* ------------------------------------------------- stored timestamps
\* C17 as stated: the timestamp of a key never decreases, under any
\* interleaving; so a call that has stored its entry finds, until it
\* returns, a timestamp no older than the second it read
C17_AsStated ==
    \A t \in Threads :
        (th[t].pc = "ret" /\ th[t].ninv = 1)
            => memo[th[t].key][2] >= IntTime(th[t].tick)

\* C17 amended: the timestamp a call stores is the second it read when it
\* began, and a call that no other call on its key overlaps, when it
\* overwrites an entry, leaves a timestamp no older than the one it found
C17_Monotone ==
    (Done /\ fr.solo /\ fr.ninv = 1 /\ last.outcome.kind = "value")
        => /\ memo[fr.key][2] = IntTime(fr.tick)
           /\ \A s \in fr.seen : s.entry[2] <= memo[fr.key][2]

\* a call has just overwritten an expired entry with a later timestamp
C17_Witness ==
    /\ Done /\ fr.solo /\ fr.ninv = 1 /\ last.outcome.kind = "value"
    /\ \E s \in fr.seen : s.entry[2] < memo[fr.key][2]

\* ------------------------------------------- set_auth and the cache
\* C18: set_auth leaves the cache as the stores made it; a call on an
\* instance whose auth dict is no longer the one the entry of its key was
\* obtained under, made while the entry is fresh, returns the stored value
\* without issuing a request; and a call issues a request, which carries
\* the auth dict of its moment, only when it found its key absent or expired
C18_KeepsCache ==
    /\ CacheIsStores
    /\ \A s \in fr.seen :
          (Done /\ fr.solo /\ s.w.args[1] = fr.inst
                /\ s.w.auth # auth_dict[fr.inst]
                /\ Fresh(s.entry, fr.tick, fr.ttl))
              => IsHit(s.entry)
    /\ \A f \in Frames :
          f.ninv = 1 => \A s \in f.seen : ~Fresh(s.entry, f.tick, f.ttl)

\* client A stored an entry without credentials, was given a token, and its
\* next call on the key has just returned the stored value with no request
C18_Witness ==
    /\ Done /\ fr.solo /\ fr.inst = "A" /\ fr.ninv = 0
    /\ auth_dict["A"] # << >>
    /\ \E s \in fr.seen : /\ s.w.args[1] = "A" /\ s.w.auth = << >>
                          /\ last.outcome = Value(s.entry[1])

\* ------------------------------------------------ auth in the payload
\* the names of the dict d, and the value d holds under the name k
Names(d) == {d[j][1] : j \in DOMAIN d}
At(d, k) == d[CHOOSE j \in DOMAIN d : d[j][1] = k][2]

\* a PUT, POST or DELETE has just been made
Posted == xfer.op \in Methods /\ xfer.pc = "done"

\* C19: after put, post or delete, whatever came of the request, the dict
\* that was sent holds every auth name with its auth value, every other
\* name of the caller's payload with the caller's value, and nothing else;
\* the caller's dict is that dict; and the auth dict of the instance is as
\* before as long as no set_auth has replaced it
C19_Merged ==
    Posted =>
        /\ Names(xfer.data) = Names(xfer.given) \cup Names(xfer.auth0)
        /\ \A k \in Names(xfer.auth0) : At(xfer.data, k) = At(xfer.auth0, k)
        /\ \A k \in Names(xfer.given) \ Names(xfer.auth0) :
              At(xfer.data, k) = At(xfer.given, k)
        /\ xfer.payload = xfer.data
        /\ xfer.during = {xfer.auth0} => auth_dict[xfer.inst] = xfer.auth0

\* a POST whose payload held token=mine and a name of its own went out with
\* the token of the instance and was rejected; the caller's dict holds the
\* instance's token and secret now
C19_Witness ==
    /\ Posted /\ xfer.op = "post"
    /\ xfer.outcome.kind = "APIError"
    /\ "token" \in Names(xfer.given) /\ "name" \in Names(xfer.given)
    /\ "token" \in Names(xfer.auth0)
    /\ At(xfer.given, "token") # At(xfer.auth0, "token")
    /\ At(xfer.payload, "token") = At(xfer.auth0, "token")
    /\ "secret" \in Names(xfer.payload)
    /\ auth_dict[xfer.inst] = xfer.auth0

====
